---- MODULE Spec2Model ----
(***************************************************************************)
(* The exact-arithmetic linear algebra of the Collatz/Mahler scripts:      *)
(* binom, the Syracuse maps, build_matrix, mat_mult, mat_power, the three  *)
(* kernel extractors and compute_error_vector.                             *)
(*                                                                         *)
(* A state is one call in progress: the function called (fn), its          *)
(* arguments (args), its local variables (locals), its position (pc) and   *)
(* what it returned or raised (ret).  Python lists are functions on        *)
(* 0..len-1, so that indices are the source's.  A Fraction is the pair      *)
(* <<numerator, denominator>> in lowest terms with a positive denominator. *)
(***************************************************************************)
EXTENDS Integers, Sequences, FiniteSets, TLC

\* Largest truncation degree N of a built matrix.
MaxN == 6
\* Entries of a matrix given directly to a function lie in -MaxEntry..MaxEntry.
MaxEntry == 2
\* Largest exponent handed to mat_power / kernel_nullity.
MaxExp == 5
\* Largest size of an operand of a direct mat_mult call.
MaxMultN == 3
\* Largest n handed to binom.
MaxBinomN == 12
\* Largest N handed to compute_error_vector.
MaxRigidN == 11
\* Sizes of the matrices given directly to a function.
GivenDims == {1, 2}

VARIABLES pc, fn, args, locals, ret

vars == <<pc, fn, args, locals, ret>>

NoLocals == [none |-> TRUE]
NoReturn == [kind |-> "none"]
Return(v) == [kind |-> "value", val |-> v]
Raise(e) == [kind |-> "error", val |-> e]

len(X) == Cardinality(DOMAIN X)
range(n) == 0 .. (n - 1)
min(a, b) == IF a < b THEN a ELSE b
abs(x) == IF x < 0 THEN -x ELSE x

(***************************************************************************)
(* fractions.Fraction                                                      *)
(***************************************************************************)
RECURSIVE gcd(_, _)
gcd(a, b) == IF b = 0 THEN a ELSE gcd(b, a % b)

Fraction(num, den) ==
    LET g == gcd(abs(num), abs(den))
        s == IF den < 0 THEN -1 ELSE 1
    IN  <<s * (num \div g), s * (den \div g)>>

Int2Frac(n) == <<n, 1>>
Zero == Int2Frac(0)
One == Int2Frac(1)
\* Fraction._add, _sub, _mul, _div: the operands are in lowest terms, and
\* common factors are taken out before the products are formed.
frac_add(x, y) ==
    LET g == gcd(x[2], y[2])
    IN  Fraction(x[1] * (y[2] \div g) + y[1] * (x[2] \div g), (x[2] \div g) * y[2])
frac_sub(x, y) ==
    LET g == gcd(x[2], y[2])
    IN  Fraction(x[1] * (y[2] \div g) - y[1] * (x[2] \div g), (x[2] \div g) * y[2])
frac_mul(x, y) ==
    LET g1 == gcd(abs(x[1]), y[2])
        g2 == gcd(abs(y[1]), x[2])
    IN  Fraction((x[1] \div g1) * (y[1] \div g2), (x[2] \div g2) * (y[2] \div g1))
frac_div(x, y) == frac_mul(x, Fraction(y[2], y[1]))
frac_neg(x) == <<-x[1], x[2]>>

(***************************************************************************)
(* binom (the same code in all four scripts)                               *)
(***************************************************************************)
\* The loop body with the division taken before the multiplication.
binom_body_divide_first(n, i, result) == (result \div (i + 1)) * (n - i)

\* result = result * (n - i) // (i + 1)
binom_body(n, i, result) == (result * (n - i)) \div (i + 1)

\* if k > n // 2: k = n - k
binom_symmetry(n, k) == IF k > n \div 2 THEN n - k ELSE k

RECURSIVE binom_loop(_, _, _, _)
binom_loop(n, k, i, result) ==
    IF i >= k THEN result
    ELSE binom_loop(n, k, i + 1, binom_body(n, i, result))

binom(n, k) ==
    IF k < 0 \/ k > n THEN 0
    ELSE IF k = 0 \/ k = n THEN 1
    ELSE binom_loop(n, binom_symmetry(n, k), 0, 1)

(***************************************************************************)
(* A call of binom, one loop iteration per step.                           *)
(***************************************************************************)
InitBinom ==
    /\ pc = "call"
    /\ fn = "binom"
    /\ args \in [n : 0 .. MaxBinomN, k : -2 .. (MaxBinomN + 2)]
    /\ locals = NoLocals
    /\ ret = NoReturn

\* if k < 0 or k > n: return 0
binom_out_of_range(n, k) == k < 0 \/ k > n

\* if k == 0 or k == n: return 1
binom_edge(n, k) == k = 0 \/ k = n

\* The two early returns.
BinomEarlyReturn ==
    /\ pc = "call" /\ fn = "binom"
    /\ (binom_out_of_range(args.n, args.k) \/ binom_edge(args.n, args.k))
    /\ ret' = Return(IF binom_out_of_range(args.n, args.k) THEN 0 ELSE 1)
    /\ pc' = "return"
    /\ UNCHANGED <<fn, args, locals>>

\* The symmetry step and result = 1.
BinomEnterLoop ==
    /\ pc = "call" /\ fn = "binom"
    /\ ~(binom_out_of_range(args.n, args.k) \/ binom_edge(args.n, args.k))
    /\ locals' = [k |-> binom_symmetry(args.n, args.k), i |-> 0, result |-> 1]
    /\ pc' = "loop"
    /\ UNCHANGED <<fn, args, ret>>

BinomIterate ==
    /\ pc = "loop" /\ fn = "binom"
    /\ locals.i < locals.k
    /\ locals' = [locals EXCEPT !.result = binom_body(args.n, locals.i, locals.result),
                                !.i = locals.i + 1]
    /\ UNCHANGED <<pc, fn, args, ret>>

BinomReturn ==
    /\ pc = "loop" /\ fn = "binom"
    /\ locals.i >= locals.k
    /\ ret' = Return(locals.result)
    /\ pc' = "return"
    /\ UNCHANGED <<fn, args, locals>>

NextBinom == BinomEarlyReturn \/ BinomEnterLoop \/ BinomIterate \/ BinomReturn

SpecBinom == InitBinom /\ [][NextBinom]_vars

\* Pascal's recurrence, the definition of C(n, k) for n >= 0.
RECURSIVE Pascal(_, _)
Pascal(n, k) ==
    IF k < 0 \/ k > n THEN 0
    ELSE IF n = 0 THEN 1
    ELSE Pascal(n - 1, k - 1) + Pascal(n - 1, k)

\* C6: binom(n, k) returns 0 when k < 0 or k > n, 1 when k is 0 or n, and
\* otherwise the binomial coefficient of Pascal's recurrence; in the loop
\* every partial product result * (n - i) is an exact multiple of i + 1.
C6_BinomExact ==
    fn = "binom" =>
        /\ (pc = "loop" /\ locals.i < locals.k) =>
               (locals.result * (args.n - locals.i)) % (locals.i + 1) = 0
        /\ pc = "return" =>
               /\ ret.kind = "value"
               /\ ret.val = Pascal(args.n, args.k)
               /\ binom(args.n, args.k) = ret.val
               /\ (args.k < 0 \/ args.k > args.n) => ret.val = 0
               /\ (args.k = 0 \/ args.k = args.n) => ret.val = 1

\* binom(12, 6) has gone through its six iterations and returned 924.
C6_Witness ==
    /\ fn = "binom" /\ pc = "return"
    /\ args.n = 12 /\ args.k = 6
    /\ locals.i = 6
    /\ ret.val = 924

(***************************************************************************)
(* The Syracuse maps                                                       *)
(***************************************************************************)
\* The Syracuse map with 5 * n + 1 written for 3 * n + 1.
T3_five_n_plus_one(n) ==
    IF n = 0 THEN 0
    ELSE IF n % 2 = 0 THEN n \div 2
    ELSE (5 * n + 1) \div 2

\* verify_5x1_control.T3, verify_dipole.collatz, verify_two_thirds.T
T3(n) ==
    IF n = 0 THEN 0
    ELSE IF n % 2 = 0 THEN n \div 2
    ELSE (3 * n + 1) \div 2

\* verify_5x1_control.T5, resonance_5x1.map_5x1
T5(n) ==
    IF n = 0 THEN 0
    ELSE IF n % 2 = 0 THEN n \div 2
    ELSE (5 * n + 1) \div 2

\* The map a function is handed as its argument T, by name.
Maps == {"T3", "T5"}
apply(map_func, n) == IF map_func = "T3" THEN T3(n) ELSE T5(n)

\* sign = 1 if (m - k) % 2 == 0 else -1 ; coeff = sign * binom(m, k)
sign(m, k) == IF (m - k) % 2 = 0 THEN 1 ELSE -1
coeff(m, k) == sign(m, k) * binom(m, k)

(***************************************************************************)
(* verify_two_thirds: compute_error_vector, first_nonzero_index, main      *)
(***************************************************************************)
\* The 5x+1 map in place of the Syracuse map.
T_five(n) == T5(n)

\* verify_two_thirds.T
T(n) == T3(n)

\* v_alt = [0] + [(-1) ** (j + 1) for j in range(1, N)]
v_alt(N) == [j \in range(IF N < 1 THEN 1 ELSE N) |->
                IF j = 0 THEN 0 ELSE IF (j + 1) % 2 = 0 THEN 1 ELSE -1]

\* for j in range(1, min(Tk + 1, N)): inner += binom(Tk, j) * v_alt[j]
RECURSIVE inner_loop(_, _, _, _)
inner_loop(N, Tk, j, inner) ==
    IF j >= min(Tk + 1, N) THEN inner
    ELSE inner_loop(N, Tk, j + 1, inner + binom(Tk, j) * v_alt(N)[j])

\* One iteration of the loop over k: Mv_m += coeff * inner
error_body(N, m, k, Mv_m) == Mv_m + coeff(m, k) * inner_loop(N, T(k), 1, 0)

append(list, x) ==
    [i \in range(len(list) + 1) |-> IF i < len(list) THEN list[i] ELSE x]

RECURSIVE first_nonzero_from(_, _)
first_nonzero_from(error, i) ==
    IF i >= len(error) THEN len(error)
    ELSE IF error[i] # 0 THEN i
    ELSE first_nonzero_from(error, i + 1)

first_nonzero_index(error) == first_nonzero_from(error, 0)

\* threshold = (2 * N) // 3
threshold(N) == (2 * N) \div 3

InitRigid ==
    /\ pc = "call"
    /\ fn = "compute_error_vector"
    /\ args \in [N : 1 .. MaxRigidN]
    /\ locals = NoLocals
    /\ ret = NoReturn

ErrorEnter ==
    /\ pc = "call" /\ fn = "compute_error_vector"
    /\ locals' = [error |-> <<>>, m |-> 0, k |-> 0, Mv_m |-> 0]
    /\ pc' = "loop"
    /\ UNCHANGED <<fn, args, ret>>

\* One iteration of "for k in range(m + 1)".
ErrorInner ==
    /\ pc = "loop" /\ fn = "compute_error_vector"
    /\ locals.m < args.N /\ locals.k <= locals.m
    /\ locals' = [locals EXCEPT
                    !.Mv_m = error_body(args.N, locals.m, locals.k, locals.Mv_m),
                    !.k = locals.k + 1]
    /\ UNCHANGED <<pc, fn, args, ret>>

\* error.append(v_alt[m] - Mv_m), and on to the next m.
ErrorAppend ==
    /\ pc = "loop" /\ fn = "compute_error_vector"
    /\ locals.m < args.N /\ locals.k > locals.m
    /\ locals' = [error |-> append(locals.error, v_alt(args.N)[locals.m] - locals.Mv_m),
                  m |-> locals.m + 1, k |-> 0, Mv_m |-> 0]
    /\ UNCHANGED <<pc, fn, args, ret>>

ErrorReturn ==
    /\ pc = "loop" /\ fn = "compute_error_vector"
    /\ locals.m >= args.N
    /\ ret' = Return(locals.error)
    /\ pc' = "return"
    /\ UNCHANGED <<fn, args, locals>>

\* main: first_nz, threshold and verified for this N.
MainVerify ==
    /\ pc = "return" /\ fn = "compute_error_vector"
    /\ locals' = [error |-> ret.val,
                  first_nz |-> first_nonzero_index(ret.val),
                  threshold |-> threshold(args.N),
                  verified |-> first_nonzero_index(ret.val) >= threshold(args.N)]
    /\ pc' = "main"
    /\ UNCHANGED <<fn, args, ret>>

NextRigid == ErrorEnter \/ ErrorInner \/ ErrorAppend \/ ErrorReturn \/ MainVerify

SpecRigid == InitRigid /\ [][NextRigid]_vars

\* C5: for every N >= 1 the vector compute_error_vector(N) returns has entry
\* m equal to 0 for every m < floor(2N/3), that is first_nonzero_index of it
\* is at least (2*N)//3 and main finds the bound verified.
C5_Rigidity ==
    (fn = "compute_error_vector" /\ pc \in {"return", "main"}) =>
        /\ ret.kind = "value"
        /\ len(ret.val) = args.N
        /\ \A m \in range(args.N) : m < (2 * args.N) \div 3 => ret.val[m] = 0
        /\ first_nonzero_index(ret.val) >= (2 * args.N) \div 3
        /\ pc = "main" => locals.verified

\* N = 10: the error vector is zero below index 6 and its first non-zero
\* entry is at index 7.
C5_Witness ==
    /\ fn = "compute_error_vector" /\ pc = "main"
    /\ args.N = 10
    /\ locals.threshold = 6
    /\ locals.first_nz = 7
    /\ locals.error[7] # 0

(***************************************************************************)
(* build_matrix                                                            *)
(***************************************************************************)
\* Row m, column j: the sum over k in range(m + 1) of coeff * binom(Tk, j),
\* taken for the columns j in range(min(Tk + 1, N)), with every sign +1.
RECURSIVE build_entry_unsigned(_, _, _, _, _)
build_entry_unsigned(N, map_func, m, j, k) ==
    IF k > m THEN 0
    ELSE (IF j < min(apply(map_func, k) + 1, N)
             THEN binom(m, k) * binom(apply(map_func, k), j)
             ELSE 0)
         + build_entry_unsigned(N, map_func, m, j, k + 1)

\* for k in range(m + 1): ... for j in range(min(Tk + 1, N)):
\*     M[m][j] += coeff * binom(Tk, j)
RECURSIVE build_entry(_, _, _, _, _)
build_entry(N, map_func, m, j, k) ==
    IF k > m THEN 0
    ELSE (IF j < min(apply(map_func, k) + 1, N)
             THEN coeff(m, k) * binom(apply(map_func, k), j)
             ELSE 0)
         + build_entry(N, map_func, m, j, k + 1)

\* verify_5x1_control.build_matrix(N, T): entries are Fractions.
build_matrix(N, map_func) ==
    [m \in range(N) |-> [j \in range(N) |->
        Int2Frac(build_entry(N, map_func, m, j, 0))]]

\* verify_dipole.build_matrix(N): the Syracuse map, entries are ints.
dipole_build_matrix(N) ==
    [m \in range(N) |-> [j \in range(N) |-> build_entry(N, "T3", m, j, 0)]]

(***************************************************************************)
(* mat_mult and mat_power (matrix_multiply and matrix_power in             *)
(* resonance_5x1 are the same code)                                        *)
(***************************************************************************)
identity(N) == [i \in range(N) |-> [j \in range(N) |-> IF i = j THEN One ELSE Zero]]

\* B[k][j] (or A[i][k]) is read outside the list: IndexError.
mat_mult_raises(A, B) ==
    \E i \in range(len(A)), j \in range(len(A)), k \in range(len(A)) :
        \/ k \notin DOMAIN A[i]
        \/ k \notin DOMAIN B
        \/ j \notin DOMAIN B[k]

\* for k in range(N): C[i][j] += A[i][k] * B[k][j]
RECURSIVE mat_mult_entry(_, _, _, _, _, _)
mat_mult_entry(A, B, i, j, k, acc) ==
    IF k >= len(A) THEN acc
    ELSE mat_mult_entry(A, B, i, j, k + 1, frac_add(acc, frac_mul(A[i][k], B[k][j])))

mat_mult(A, B) ==
    [i \in range(len(A)) |-> [j \in range(len(A)) |-> mat_mult_entry(A, B, i, j, 0, Zero)]]

\* The loop body without the test of the low bit of p.
mat_power_body_always_multiply(st) ==
    [result |-> mat_mult(st.result, st.base),
     base |-> mat_mult(st.base, st.base),
     p |-> st.p \div 2]

\* if p % 2 == 1: result = mat_mult(result, base)
\* base = mat_mult(base, base) ; p //= 2
mat_power_body(st) ==
    [result |-> IF st.p % 2 = 1 THEN mat_mult(st.result, st.base) ELSE st.result,
     base |-> mat_mult(st.base, st.base),
     p |-> st.p \div 2]

\* while p > 0: ...
RECURSIVE mat_power_loop(_)
mat_power_loop(st) ==
    IF st.p > 0 THEN mat_power_loop(mat_power_body(st)) ELSE st.result

mat_power(M, p) ==
    IF p = 1 THEN M
    ELSE mat_power_loop([result |-> identity(len(M)), base |-> M, p |-> p])

(***************************************************************************)
(* The kernel extractors                                                   *)
(***************************************************************************)
Dipole == "verify_dipole.kernel_nullity_and_vectors"
Control == "verify_5x1_control.kernel_nullity"
Resonance == "resonance_5x1.kernel_nullity"
Extractors == {Dipole, Control, Resonance}

delta(i, j) == IF i = j THEN One ELSE Zero

\* verify_dipole: A = Fraction(1 if i == j else 0) - M[i][j], M holding ints
dipole_I_minus(M) ==
    [i \in range(len(M)) |-> [j \in range(len(M)) |->
        frac_sub(delta(i, j), Int2Frac(M[i][j]))]]

\* verify_5x1_control: Mp = mat_power(M, power) if power > 1 else M
\*                     A = Fraction(1 if i == j else 0) - Mp[i][j]
control_I_minus(M, power) ==
    LET Mp == IF power > 1 THEN mat_power(M, power) ELSE M
    IN  [i \in range(len(M)) |-> [j \in range(len(M)) |->
            frac_sub(delta(i, j), Mp[i][j])]]

\* resonance_5x1: aug = Fraction(-M[i][j] + (1 if i == j else 0))
resonance_I_minus(M) ==
    [i \in range(len(M)) |-> [j \in range(len(M)) |->
        frac_add(frac_neg(M[i][j]), delta(i, j))]]

\* The first r in range(pivot_row, N) with A[r][col] != 0, or -1.
RECURSIVE find_pivot(_, _, _, _)
find_pivot(A, N, col, r) ==
    IF r >= N THEN -1
    ELSE IF A[r][col] # Zero THEN r
    ELSE find_pivot(A, N, col, r + 1)

\* A[pivot_row], A[found] = A[found], A[pivot_row]
swap_rows(A, pivot_row, found) ==
    [A EXCEPT ![pivot_row] = A[found], ![found] = A[pivot_row]]

\* pv = A[pivot_row][col]
\* for c in range(first_c, N): A[pivot_row][c] /= pv
scale_row(A, N, pivot_row, col, first_c) ==
    [A EXCEPT ![pivot_row] =
        [c \in range(N) |-> IF c >= first_c THEN frac_div(A[pivot_row][c], A[pivot_row][col])
                            ELSE A[pivot_row][c]]]

\* for r in range(first_r, N):
\*     if r != pivot_row and A[r][col] != 0:
\*         factor = A[r][col]
\*         for c in range(first_c, N): A[r][c] -= factor * A[pivot_row][c]
eliminate(A, N, pivot_row, col, first_r, first_c) ==
    [r \in range(N) |->
        IF r >= first_r /\ r # pivot_row /\ A[r][col] # Zero
        THEN [c \in range(N) |->
                IF c >= first_c
                THEN frac_sub(A[r][c], frac_mul(A[r][col], A[pivot_row][c]))
                ELSE A[r][c]]
        ELSE A[r]]

\* The pivot step with the column cleared from the rows below only.
gauss_jordan_below_only(A, N, pivot_row, col, found) ==
    eliminate(scale_row(swap_rows(A, pivot_row, found), N, pivot_row, col, 0),
              N, pivot_row, col, pivot_row + 1, 0)

\* The pivot step of verify_dipole and verify_5x1_control: swap, scale the
\* whole pivot row, eliminate the column from every other row.
gauss_jordan(A, N, pivot_row, col, found) ==
    eliminate(scale_row(swap_rows(A, pivot_row, found), N, pivot_row, col, 0),
              N, pivot_row, col, 0, 0)

\* The pivot step of resonance_5x1: swap, scale the pivot row from the pivot
\* column on, eliminate the column from the rows below.
gauss_below(A, N, pivot_row, col, found) ==
    eliminate(scale_row(swap_rows(A, pivot_row, found), N, pivot_row, col, col),
              N, pivot_row, col, pivot_row + 1, col)

\* One iteration of "for col in range(N)" past the break, in each script.
\* verify_5x1_control keeps no pivots list; the model's is empty there.
pivot_step(script, st, N) ==
    LET found == find_pivot(st.A, N, st.col, st.pivot_row)
    IN  IF found = -1
        THEN [st EXCEPT !.col = st.col + 1]
        ELSE [A |-> IF script = Resonance
                    THEN gauss_below(st.A, N, st.pivot_row, st.col, found)
                    ELSE gauss_jordan(st.A, N, st.pivot_row, st.col, found),
              pivots |-> IF script = Control THEN st.pivots
                         ELSE append(st.pivots, st.col),
              pivot_row |-> st.pivot_row + 1,
              col |-> st.col + 1]

\* The break taken one pivot early.
breaks_one_early(script, st, N) == script # Control /\ st.pivot_row >= N - 1

\* if pivot_row >= N: break   (verify_dipole and resonance_5x1 only)
breaks(script, st, N) == script # Control /\ st.pivot_row >= N

\* The loop is over: the columns are exhausted or the break was taken.
loop_ends(script, st, N) == st.col >= N \/ breaks(script, st, N)

\* free_vars = [j for j in range(N) if j not in pivots]
RECURSIVE free_vars_from(_, _, _, _)
free_vars_from(N, pivots, j, acc) ==
    IF j >= N THEN acc
    ELSE free_vars_from(N, pivots, j + 1,
            IF \E r \in DOMAIN pivots : pivots[r] = j THEN acc ELSE append(acc, j))

free_vars(N, pivots) == free_vars_from(N, pivots, 0, <<>>)

\* The kernel vector with the pivot entries copied without the minus sign.
kernel_vector_unnegated(A, N, pivots, fv) ==
    [c \in range(N) |->
        IF \E row_idx \in DOMAIN pivots : pivots[row_idx] = c
        THEN A[CHOOSE row_idx \in DOMAIN pivots : pivots[row_idx] = c][fv]
        ELSE IF c = fv THEN One ELSE Zero]

\* vec = [Fraction(0)] * N ; vec[fv] = Fraction(1)
\* for row_idx, pivot_col in enumerate(pivots): vec[pivot_col] = -A[row_idx][fv]
kernel_vector(A, N, pivots, fv) ==
    [c \in range(N) |->
        IF \E row_idx \in DOMAIN pivots : pivots[row_idx] = c
        THEN frac_neg(A[CHOOSE row_idx \in DOMAIN pivots : pivots[row_idx] = c][fv])
        ELSE IF c = fv THEN One ELSE Zero]

\* kernel_vectors, one vector for each free variable in ascending order
kernel_vectors(A, N, pivots) ==
    [i \in DOMAIN free_vars(N, pivots) |->
        kernel_vector(A, N, pivots, free_vars(N, pivots)[i])]

\* What each script returns when the loop is over.
kernel_result(script, st, N) ==
    IF script = Dipole
    THEN [nullity |-> len(free_vars(N, st.pivots)),
          kernel_vectors |-> kernel_vectors(st.A, N, st.pivots)]
    ELSE IF script = Control THEN N - st.pivot_row
    ELSE N - len(st.pivots)

(***************************************************************************)
(* Calls of build_matrix, mat_mult, mat_power and the kernel extractors.   *)
(***************************************************************************)
\* The square matrices of the sizes in GivenDims with entries in
\* -MaxEntry..MaxEntry, as ints and as Fractions.
as_fractions(X) == [i \in DOMAIN X |-> [j \in DOMAIN X |-> Int2Frac(X[i][j])]]
GivenInt ==
    UNION {[range(d) -> [range(d) -> (-MaxEntry) .. MaxEntry]] : d \in GivenDims}
GivenFraction == {as_fractions(X) : X \in GivenInt}

\* The extractors are also handed the 3x3 matrices of zeros and ones.
KernelInt == GivenInt \cup [range(3) -> [range(3) -> {0, 1}]]
KernelFraction == {as_fractions(X) : X \in KernelInt}

\* ... and, where M holds Fractions, the 2x2 matrices of these non-integers.
RationalEntries == {<<-1, 2>>, <<1, 2>>, <<3, 2>>, <<1, 3>>}
KernelRational == [range(2) -> [range(2) -> RationalEntries]]

InitBuild ==
    /\ pc = "call"
    /\ fn = "build_matrix"
    /\ args \in [N : -1 .. MaxN, T : Maps]
    /\ locals = NoLocals
    /\ ret = NoReturn

InitMult ==
    /\ pc = "call"
    /\ fn = "mat_mult"
    /\ \E Na \in 0 .. MaxMultN, Nb \in 0 .. MaxMultN, Ta \in Maps, Tb \in Maps :
          args = [A |-> build_matrix(Na, Ta), B |-> build_matrix(Nb, Tb)]
    /\ locals = NoLocals
    /\ ret = NoReturn

InitPower ==
    /\ pc = "call"
    /\ fn = "mat_power"
    /\ args \in [M : GivenFraction, p : -1 .. MaxExp]
    /\ locals = NoLocals
    /\ ret = NoReturn

\* An extractor is handed a given matrix or, as in main, a built one;
\* verify_5x1_control.kernel_nullity also takes a power.
InitKernel ==
    /\ pc = "call"
    /\ \/ /\ fn = Dipole
          /\ \/ \E X \in KernelInt :
                   args = [M |-> X, power |-> 1, origin |-> "given", T |-> "none"]
             \/ \E N \in 1 .. MaxN :
                   args = [M |-> dipole_build_matrix(N), power |-> 1,
                           origin |-> "built", T |-> "T3"]
       \/ /\ fn \in {Control, Resonance}
          /\ \/ \E X \in KernelFraction \cup KernelRational :
                   args = [M |-> X, power |-> 1, origin |-> "given", T |-> "none"]
             \/ \E N \in 1 .. MaxN, map_func \in Maps :
                   args = [M |-> build_matrix(N, map_func), power |-> 1,
                           origin |-> "built", T |-> map_func]
       \/ /\ fn = Control
          /\ \E X \in GivenFraction, power \in (-1 .. MaxExp) \ {1} :
                args = [M |-> X, power |-> power, origin |-> "given", T |-> "none"]
    /\ locals = NoLocals
    /\ ret = NoReturn

Init == InitBuild \/ InitMult \/ InitPower \/ InitKernel

BuildCall ==
    /\ pc = "call" /\ fn = "build_matrix"
    /\ ret' = Return(build_matrix(args.N, args.T))
    /\ pc' = "return"
    /\ UNCHANGED <<fn, args, locals>>

MultCall ==
    /\ pc = "call" /\ fn = "mat_mult"
    /\ ret' = IF mat_mult_raises(args.A, args.B) THEN Raise("IndexError")
              ELSE Return(mat_mult(args.A, args.B))
    /\ pc' = "return"
    /\ UNCHANGED <<fn, args, locals>>

\* if p == 1: return [row[:] for row in M]
PowerCopy ==
    /\ pc = "call" /\ fn = "mat_power"
    /\ args.p = 1
    /\ ret' = Return(args.M)
    /\ pc' = "return"
    /\ UNCHANGED <<fn, args, locals>>

PowerEnter ==
    /\ pc = "call" /\ fn = "mat_power"
    /\ args.p # 1
    /\ locals' = [result |-> identity(len(args.M)), base |-> args.M, p |-> args.p]
    /\ pc' = "loop"
    /\ UNCHANGED <<fn, args, ret>>

PowerIterate ==
    /\ pc = "loop" /\ fn = "mat_power"
    /\ locals.p > 0
    /\ locals' = mat_power_body(locals)
    /\ UNCHANGED <<pc, fn, args, ret>>

PowerReturn ==
    /\ pc = "loop" /\ fn = "mat_power"
    /\ ~(locals.p > 0)
    /\ ret' = Return(locals.result)
    /\ pc' = "return"
    /\ UNCHANGED <<fn, args, locals>>

KernelEnter ==
    /\ pc = "call" /\ fn \in Extractors
    /\ locals' = [A |-> IF fn = Dipole THEN dipole_I_minus(args.M)
                        ELSE IF fn = Control THEN control_I_minus(args.M, args.power)
                        ELSE resonance_I_minus(args.M),
                  pivots |-> <<>>, pivot_row |-> 0, col |-> 0]
    /\ pc' = "loop"
    /\ UNCHANGED <<fn, args, ret>>

KernelIterate ==
    /\ pc = "loop" /\ fn \in Extractors
    /\ ~loop_ends(fn, locals, len(args.M))
    /\ locals' = pivot_step(fn, locals, len(args.M))
    /\ UNCHANGED <<pc, fn, args, ret>>

KernelReturn ==
    /\ pc = "loop" /\ fn \in Extractors
    /\ loop_ends(fn, locals, len(args.M))
    /\ ret' = Return(kernel_result(fn, locals, len(args.M)))
    /\ pc' = "return"
    /\ UNCHANGED <<fn, args, locals>>

Next ==
    \/ BuildCall
    \/ MultCall
    \/ PowerCopy
    \/ PowerEnter
    \/ PowerIterate
    \/ PowerReturn
    \/ KernelEnter
    \/ KernelIterate
    \/ KernelReturn

Spec == Init /\ [][Next]_vars

RECURSIVE dot(_, _, _, _)
dot(row, v, j, acc) ==
    IF j >= len(v) THEN acc
    ELSE dot(row, v, j + 1, frac_add(acc, frac_mul(row[j], v[j])))

mat_vec(A, v) == [i \in DOMAIN A |-> dot(A[i], v, 0, Zero)]

\* C2: every vector v of the kernel_vectors that kernel_nullity_and_vectors(M)
\* returns satisfies (I - M) v = 0 in every coordinate; v has 1 at its free
\* column, the negated reduced-form entries at the pivot columns and 0
\* elsewhere.
C2_KernelVectorsInKernel ==
    (fn = Dipole /\ pc = "return") =>
        LET N == len(args.M)
            vs == ret.val.kernel_vectors
            fvs == free_vars(N, locals.pivots)
        IN  /\ len(vs) = ret.val.nullity
            /\ len(vs) = N - len(locals.pivots)
            /\ \A i \in DOMAIN vs :
                  /\ DOMAIN vs[i] = range(N)
                  /\ mat_vec(dipole_I_minus(args.M), vs[i]) = [r \in range(N) |-> Zero]
                  /\ vs[i][fvs[i]] = One
                  /\ \A r \in DOMAIN locals.pivots :
                        vs[i][locals.pivots[r]] = frac_neg(locals.A[r][fvs[i]])
                  /\ \A c \in range(N) :
                        (c # fvs[i] /\ \A r \in DOMAIN locals.pivots : locals.pivots[r] # c)
                            => vs[i][c] = Zero

\* A kernel vector with a non-zero entry at a pivot column has been returned
\* for a given 2x2 matrix, and two kernel vectors for the 5x5 Syracuse matrix.
C2_Witness ==
    /\ fn = Dipole /\ pc = "return"
    /\ ret.val.nullity >= 1
    /\ len(locals.pivots) >= 1
    /\ \E i \in DOMAIN ret.val.kernel_vectors :
          ret.val.kernel_vectors[i][locals.pivots[0]] \notin {Zero, One}

\* C9: for every N >= 1 and both maps the matrix from build_matrix has entry
\* [0][0] = 1 and every other entry of row 0 and of column 0 equal to 0, so
\* e_0 lies in ker(I - M) and kernel_nullity(M, 1) >= 1.
C9_ConstantColumn ==
    /\ (fn = "build_matrix" /\ pc = "return" /\ args.N >= 1) =>
          /\ ret.kind = "value"
          /\ ret.val[0][0] = One
          /\ \A j \in 1 .. (args.N - 1) : ret.val[0][j] = Zero /\ ret.val[j][0] = Zero
    /\ (fn = Control /\ args.origin = "built") =>
          LET N == len(args.M)
              e_0 == [j \in range(N) |-> IF j = 0 THEN One ELSE Zero]
          IN  /\ args.M = build_matrix(N, args.T)
              /\ args.M[0][0] = One
              /\ \A j \in 1 .. (N - 1) : args.M[0][j] = Zero /\ args.M[j][0] = Zero
              /\ mat_vec(control_I_minus(args.M, 1), e_0) = [r \in range(N) |-> Zero]
              /\ pc = "return" => (ret.kind = "value" /\ ret.val >= 1)

\* kernel_nullity has returned for the 6x6 matrix of the 5x+1 map: nullity 1.
C9_Witness ==
    /\ fn = Control /\ pc = "return" /\ args.origin = "built"
    /\ args.T = "T5" /\ len(args.M) = 6
    /\ args.power = 1
    /\ ret.val = 1

\* M multiplied by itself p times, p >= 1.
RECURSIVE true_power(_, _)
true_power(M, p) == IF p <= 1 THEN M ELSE mat_mult(M, true_power(M, p - 1))

\* C3: mat_power(M, 1) equals M entry for entry, and for all a >= 1, b >= 1
\* mat_power(M, a + b) equals mat_mult(mat_power(M, a), mat_power(M, b)):
\* binary exponentiation computes the true power.
C3_PowerAdditive ==
    (fn = "mat_power" /\ pc = "return" /\ args.p >= 1) =>
        /\ ret.kind = "value"
        /\ args.p = 1 => ret.val = args.M
        /\ ret.val = true_power(args.M, args.p)
        /\ \A a \in 1 .. (args.p - 1) :
              ret.val = mat_mult(mat_power(args.M, a), mat_power(args.M, args.p - a))

\* mat_power(M, 5) has run its three iterations on a 2x2 matrix whose fifth
\* power is neither M nor the identity.
C3_Witness ==
    /\ fn = "mat_power" /\ pc = "return"
    /\ args.p = 5 /\ len(args.M) = 2
    /\ locals.p = 0
    /\ ret.val # args.M
    /\ ret.val # identity(2)
    /\ ret.val = mat_mult(mat_power(args.M, 2), mat_power(args.M, 3))

\* C7: matrix exponentiation called with an exponent below 1 fails fast:
\* mat_power never returns a matrix for p < 1 and kernel_nullity(M, power)
\* never returns a nullity for power < 1.
C7_InvalidExponentFails ==
    /\ (fn = "mat_power" /\ pc = "return" /\ args.p < 1) => ret.kind = "error"
    /\ (fn = Control /\ pc = "return" /\ args.power < 1) => ret.kind = "error"

\* C8: build_matrix called with N <= 0, and mat_mult called with matrices of
\* different sizes, fail immediately; they never return a result.
C8_InvalidDimensionFails ==
    /\ (fn = "build_matrix" /\ pc = "return" /\ args.N <= 0) => ret.kind = "error"
    /\ (fn = "mat_mult" /\ pc = "return" /\ len(args.A) # len(args.B)) =>
          ret.kind = "error"

\* The column of the first non-zero entry of a row, N for a zero row.
RECURSIVE leading_from(_, _, _)
leading_from(row, N, c) ==
    IF c >= N THEN N
    ELSE IF row[c] # Zero THEN c
    ELSE leading_from(row, N, c + 1)

leading(row, N) == leading_from(row, N, 0)

\* Rows 0..rank-1 are pivot rows: each has a leading 1, in a column further
\* right than the row above, and that column is 0 in every row of "others".
pivot_columns_cleared(A, N, rank, others(_)) ==
    \A r \in range(rank) :
        /\ leading(A[r], N) < N
        /\ A[r][leading(A[r], N)] = One
        /\ r > 0 => leading(A[r - 1], N) < leading(A[r], N)
        /\ \A r2 \in others(r) : A[r2][leading(A[r], N)] = Zero

zero_rows_from(A, N, rank) ==
    \A r \in range(N) : r >= rank => A[r] = [c \in range(N) |-> Zero]

\* Reduced row-echelon form: each pivot column holds 1 in its pivot row and
\* 0 in every other row.
reduced_row_echelon(A, N, rank) ==
    /\ pivot_columns_cleared(A, N, rank, LAMBDA r : range(N) \ {r})
    /\ zero_rows_from(A, N, rank)

\* Row-echelon form with unit pivots: each pivot column holds 1 in its pivot
\* row and 0 in every row below.
row_echelon(A, N, rank) ==
    /\ pivot_columns_cleared(A, N, rank, LAMBDA r : (r + 1) .. (N - 1))
    /\ zero_rows_from(A, N, rank)

\* C10 as claimed: in every kernel extractor, when elimination ends the
\* working matrix is in reduced row-echelon form.
C10_EveryExtractorReduced ==
    (fn \in Extractors /\ pc = "return") =>
        reduced_row_echelon(locals.A, len(args.M), locals.pivot_row)

\* C10 as amended: in verify_5x1_control.kernel_nullity and
\* verify_dipole.kernel_nullity_and_vectors each pivot step clears the pivot
\* column from every other row, above and below, and elimination ends in
\* reduced row-echelon form; resonance_5x1.kernel_nullity clears the pivot
\* column from the rows below only and ends in row-echelon form with unit
\* pivots.
C10_ReducedOrEchelon ==
    (fn \in Extractors /\ pc \in {"loop", "return"}) =>
        LET N == len(args.M)
        IN  /\ fn \in {Dipole, Control} =>
                 /\ pivot_columns_cleared(locals.A, N, locals.pivot_row,
                                          LAMBDA r : range(N) \ {r})
                 /\ pc = "return" =>
                       reduced_row_echelon(locals.A, N, locals.pivot_row)
            /\ fn = Resonance =>
                 /\ pivot_columns_cleared(locals.A, N, locals.pivot_row,
                                          LAMBDA r : (r + 1) .. (N - 1))
                 /\ pc = "return" => row_echelon(locals.A, N, locals.pivot_row)
            /\ fn # Control =>
                 /\ len(locals.pivots) = locals.pivot_row
                 /\ \A r \in DOMAIN locals.pivots :
                       locals.pivots[r] = leading(locals.A[r], N)

\* Elimination has ended on a 2x2 matrix of full rank whose entry above the
\* second pivot was non-zero before the second pivot step cleared it.
C10_Witness ==
    /\ fn = Dipole /\ pc = "return"
    /\ len(args.M) = 2
    /\ locals.pivot_row = 2
    /\ dipole_I_minus(args.M)[0][0] # Zero
    /\ dipole_I_minus(args.M)[0][1] # Zero
    /\ locals.A = identity(2)

(***************************************************************************)
(* The extractors as functions of the matrix handed to them.               *)
(***************************************************************************)
\* pivots, pivot_row = [], 0 and the first column
loop_start(A) == [A |-> A, pivots |-> <<>>, pivot_row |-> 0, col |-> 0]

\* for col in range(N): ... , run until the loop is over
RECURSIVE run_loop(_, _, _)
run_loop(script, st, N) ==
    IF loop_ends(script, st, N) THEN st
    ELSE run_loop(script, pivot_step(script, st, N), N)

\* verify_dipole.kernel_nullity_and_vectors(M)[0], M holding ints
dipole_nullity(M) ==
    kernel_result(Dipole, run_loop(Dipole, loop_start(dipole_I_minus(M)), len(M)),
                  len(M)).nullity

\* verify_dipole.kernel_nullity_and_vectors(M)[0], M holding Fractions
dipole_nullity_of_fractions(M) ==
    kernel_result(Dipole,
                  run_loop(Dipole, loop_start(control_I_minus(M, 1)), len(M)),
                  len(M)).nullity

\* verify_5x1_control.kernel_nullity(M, power)
control_nullity(M, power) ==
    kernel_result(Control,
                  run_loop(Control, loop_start(control_I_minus(M, power)), len(M)),
                  len(M))

\* resonance_5x1.kernel_nullity(M)
resonance_nullity(M) ==
    kernel_result(Resonance,
                  run_loop(Resonance, loop_start(resonance_I_minus(M)), len(M)),
                  len(M))

\* C11: for every square rational matrix M, resonance_5x1.kernel_nullity(M),
\* verify_5x1_control.kernel_nullity(M, 1) and the nullity returned by
\* verify_dipole.kernel_nullity_and_vectors(M) are the same integer.
C11_ExtractorsAgree ==
    (fn \in Extractors /\ pc = "return" /\ args.power = 1) =>
        /\ ret.kind = "value"
        /\ fn = Dipole =>
              /\ ret.val.nullity = dipole_nullity(args.M)
              /\ ret.val.nullity = control_nullity(as_fractions(args.M), 1)
              /\ ret.val.nullity = resonance_nullity(as_fractions(args.M))
        /\ fn = Control =>
              /\ ret.val = control_nullity(args.M, 1)
              /\ ret.val = resonance_nullity(args.M)
              /\ ret.val = dipole_nullity_of_fractions(args.M)
        /\ fn = Resonance =>
              /\ ret.val = resonance_nullity(args.M)
              /\ ret.val = control_nullity(args.M, 1)
              /\ ret.val = dipole_nullity_of_fractions(args.M)

\* resonance_5x1.kernel_nullity has returned nullity 1 for a 3x3 matrix that
\* it left unreduced, with a non-zero entry above a pivot, where the full
\* Gauss-Jordan loop of verify_5x1_control ends on another working matrix.
C11_Witness ==
    /\ fn = Resonance /\ pc = "return"
    /\ len(args.M) = 3
    /\ ret.val = 1
    /\ locals.pivot_row = 2
    /\ ~reduced_row_echelon(locals.A, 3, 2)
    /\ run_loop(Control, loop_start(control_I_minus(args.M, 1)), 3).A # locals.A
    /\ control_nullity(args.M, 1) = 1

====
